---- MODULE Spec2Model ----
(***************************************************************************)
(* A model of the ppu-uniface demo: the attendance page's live scan        *)
(* (src/unnamed/part_005), the API-key store of the API guide              *)
(* (src/unnamed/part_010) and the face search / enrolment routes           *)
(* (src/unnamed/part_000, src/app/api/faces/route.ts).                     *)
(*                                                                         *)
(* Similarities and thresholds are percentages (0.7 is 70), the fps slider *)
(* is in tenths of a check per second (0.5 is 5).                          *)
(***************************************************************************)
EXTENDS Integers, Sequences, FiniteSets, Bags, TLC

(***************************************************************************)
(* Bounds of the model.                                                    *)
(***************************************************************************)
\* number of distinct target images the user can pick
NumImages == 2
\* cap on the verifyFrame calls outstanding at once (the code has no cap)
MaxInFlight == 2
\* number of values crypto.randomUUID can return
NumUuids == 3
\* cap on the POST /admin/keys requests between generateApiKey and the insert
MaxPending == 1
\* cap on the enrolments between uniface.recognize and the insert
MaxEnrolling == 2
\* cap on the rows of the faces table
MaxFaces == 11
\* cap on the rows of the faces table where the requests' answers are followed
MaxRows == 2
\* cap on unixepoch(), in seconds since the first request
MaxTime == 1

(***************************************************************************)
(* Program constants of the attendance page.                               *)
(***************************************************************************)
NoImage == 0
DefaultThreshold == 70
DefaultFps == 5
ThresholdMin == 50
ThresholdMax == 95
FpsMin == 2
FpsMax == 20

Images == 1..NumImages
\* slider positions the model moves the sliders to: both ends and the default
ThresholdChoices == {ThresholdMin, DefaultThreshold, ThresholdMax}
FpsChoices == {FpsMin, DefaultFps, FpsMax}
\* similarities /api/verify may report: below, between, equal to and above
\* the thresholds
Sims == {0, 60, 70, 100}
\* similarity state: <<>> is null, <<s>> is the number s
NullSim == <<>>

VARIABLES
    \* ---- attendance page (React state and refs) ----
    mounted,        \* the page component is mounted (webcamRef.current is set)
    targetImage,    \* NoImage or the selected image
    isScanning,
    status,         \* "idle" | "scanning" | "success"
    similarity,     \* NullSim or <<s>>
    threshold,
    fps,
    intervalRef,    \* <<>> (null) or <<id>> of the timer startScanning made
    timers,         \* the runtime's active interval timers and their callbacks
    inflight,       \* bag of verifyFrame calls suspended at an await
    unmountedScanning, \* history: the page was scanning when it unmounted
    \* ---- API-guide service: api_keys table and requests ----
    now,            \* unixepoch()
    apiKeys,        \* rows of the api_keys table
    nextKeyId,      \* the AUTOINCREMENT sequence of api_keys
    usedUuids,      \* how many values crypto.randomUUID has returned so far
    pendingKeys,    \* POST /admin/keys requests between generateApiKey and the insert
    requests,       \* the API request followed through apiKeyAuth to its handler, if any
    handedOut,      \* history: [id, key] of every page that showed a new key
    revokedIds,     \* history: ids whose api_keys row was deleted
    lastEngineCall, \* history: the last request that reached uniface or the faces table
    \* ---- faces table of the demo and its enrolments ----
    faces,          \* rows of the faces table, in rowid order
    pendingFaces,   \* POST /api/faces requests between uniface.recognize and the insert
    lastReply,      \* the response of the faces / search request that finished last
    lastSearch,     \* history: the last search recorded, what it read and answered
    overlapped,     \* history: a row was inserted while another enrolment was under way
    \* ---- POST /api/kyc of the API-guide service ----
    kycPending,     \* requests waiting for uniface.detect or uniface.verify
    kycReply,       \* the response of the KYC request that finished last
    \* ---- detection page (React state) ----
    dImage,         \* NoImage or the selected image
    dLoading,
    dResult,        \* <<>> (null) or <<data>>
    dError,         \* <<>> (null) or <<message>>
    dResponseTime,  \* <<>> (null) or <<image>> of the request that was timed
    dInflight,      \* detectFace calls suspended at an await
    \* ---- search page (React state) ----
    sImage,         \* NoImage or the selected image
    sName,          \* the name input, as its characters
    sLoading,
    sMode,          \* "search" | "add"
    sResults,       \* what setResults was last given
    sFaces,         \* what setFaces was last given
    sCalls,         \* handleSearch / handleAdd calls suspended at an await
    sFetching,      \* fetchFaces calls suspended at an await
    sAlert          \* history: <<>> or the request the last success alert followed

scanVars == <<mounted, targetImage, isScanning, status, similarity, threshold,
              fps, intervalRef, timers, inflight, unmountedScanning>>

credVars == <<now, apiKeys, nextKeyId, usedUuids, pendingKeys, requests,
              handedOut, revokedIds, lastEngineCall>>

faceVars == <<faces, pendingFaces, lastReply, lastSearch, overlapped>>

\* the variables of the API-key store, without the clock
keyVars == <<apiKeys, nextKeyId, usedUuids, pendingKeys, requests, handedOut,
             revokedIds, lastEngineCall>>

kycVars == <<kycPending, kycReply>>

\* the variables of the pages and routes modelled on their own
detectVars == <<dImage, dLoading, dResult, dError, dResponseTime, dInflight>>
searchVars == <<sImage, sName, sLoading, sMode, sResults, sFaces, sCalls,
                sFetching, sAlert>>
pageVars == <<kycVars, detectVars, searchVars>>

vars == <<scanVars, credVars, faceVars, pageVars>>

(***************************************************************************)
(* Attendance page: src/unnamed/part_005                                   *)
(***************************************************************************)
ScanInit ==
    /\ mounted = TRUE
    /\ targetImage = NoImage
    /\ isScanning = FALSE
    /\ status = "idle"
    /\ similarity = NullSim
    /\ threshold = DefaultThreshold
    /\ fps = DefaultFps
    /\ intervalRef = <<>>
    /\ timers = {}
    /\ inflight = EmptyBag
    /\ unmountedScanning = FALSE

\* 1000 / fps, the period handed to setInterval, in milliseconds
IntervalMs(f) == 10000 \div f

\* a handle setInterval has not given to a timer that is still active
NewTimerId == CHOOSE i \in 1..(Cardinality(timers) + 1) :
                  \A t \in timers : t.id # i

\* stopScanning with the timer left running (a mutant of stopScanning)
stopScanning_KeepsTimer ==
    /\ isScanning' = (IF mounted THEN FALSE ELSE isScanning)
    /\ UNCHANGED <<intervalRef, timers>>

\* stopScanning: setIsScanning(false); clearInterval(intervalRef.current).
\* A state setter of an unmounted component does nothing.
stopScanning ==
    /\ isScanning' = (IF mounted THEN FALSE ELSE isScanning)
    /\ IF intervalRef # <<>>
       THEN /\ timers' = {t \in timers : t.id # intervalRef[1]}
            /\ intervalRef' = <<>>
       ELSE UNCHANGED <<intervalRef, timers>>

\* handleFileSelect: the three pickers are rendered only while no target is set
HandleFileSelect(img) ==
    /\ mounted
    /\ targetImage = NoImage
    /\ targetImage' = img
    /\ status' = "idle"
    /\ similarity' = NullSim
    /\ stopScanning
    /\ UNCHANGED <<mounted, threshold, fps, inflight>>

\* the Change Target button: setTargetImage(null) and nothing else
ChangeTarget ==
    /\ mounted
    /\ targetImage # NoImage
    /\ targetImage' = NoImage
    /\ UNCHANGED <<mounted, isScanning, status, similarity, threshold, fps,
                   intervalRef, timers, inflight>>

SetThreshold(v) ==
    /\ mounted
    /\ v # threshold
    /\ threshold' = v
    /\ UNCHANGED <<mounted, targetImage, isScanning, status, similarity, fps,
                   intervalRef, timers, inflight>>

SetFps(v) ==
    /\ mounted
    /\ v # fps
    /\ fps' = v
    /\ UNCHANGED <<mounted, targetImage, isScanning, status, similarity,
                   threshold, intervalRef, timers, inflight>>

\* startScanning that keeps the handle setInterval returned in no ref
\* (a mutant of StartScanning)
StartScanning_HandleLost ==
    /\ mounted
    /\ status # "success"
    /\ ~isScanning
    /\ targetImage # NoImage
    /\ isScanning' = TRUE
    /\ status' = "scanning"
    /\ timers' = timers \cup
           {[id |-> NewTimerId, target |-> targetImage, threshold |-> threshold,
             interval |-> IntervalMs(fps)]}
    /\ UNCHANGED <<mounted, targetImage, similarity, threshold, fps, inflight,
                   intervalRef>>

\* the start/stop button is rendered unless status is "success" and is
\* disabled without a target; it calls startScanning when isScanning is false.
\* The timer's callback is the verifyFrame of the render the click happened
\* in: it closes over that render's targetImage and threshold.
StartScanning ==
    /\ mounted
    /\ status # "success"
    /\ ~isScanning
    /\ targetImage # NoImage
    /\ isScanning' = TRUE
    /\ status' = "scanning"
    /\ LET id == NewTimerId
       IN  /\ timers' = timers \cup
                 {[id |-> id, target |-> targetImage, threshold |-> threshold,
                   interval |-> IntervalMs(fps)]}
           /\ intervalRef' = <<id>>
    /\ UNCHANGED <<mounted, targetImage, similarity, threshold, fps, inflight>>

\* the same button while isScanning is true calls stopScanning
StopScanning ==
    /\ mounted
    /\ status # "success"
    /\ isScanning
    /\ targetImage # NoImage
    /\ stopScanning
    /\ UNCHANGED <<mounted, targetImage, status, similarity, threshold, fps,
                   inflight>>

\* the Reset button, rendered while status is "success"
Reset ==
    /\ mounted
    /\ status = "success"
    /\ status' = "idle"
    /\ UNCHANGED <<mounted, targetImage, isScanning, similarity, threshold,
                   fps, intervalRef, timers, inflight>>

\* a tick whose verifyFrame reads the page's current target and threshold
\* instead of the ones it closed over (a mutant of Tick)
Tick_CurrentSettings(t, haveScreenshot) ==
    /\ t \in timers
    /\ IF mounted /\ targetImage # NoImage /\ haveScreenshot
       THEN /\ BagCardinality(inflight) < MaxInFlight
            /\ inflight' = inflight (+)
                   SetToBag({[target |-> targetImage, threshold |-> threshold]})
       ELSE UNCHANGED inflight
    /\ UNCHANGED <<mounted, targetImage, isScanning, status, similarity,
                   threshold, fps, intervalRef, timers>>

\* A tick of timer t runs verifyFrame up to its first await. Without a webcam
\* or a screenshot it returns at once; otherwise the call is suspended with
\* the target and threshold it closed over.
Tick(t, haveScreenshot) ==
    /\ t \in timers
    /\ IF mounted /\ t.target # NoImage /\ haveScreenshot
       THEN /\ BagCardinality(inflight) < MaxInFlight
            /\ inflight' = inflight (+)
                   SetToBag({[target |-> t.target, threshold |-> t.threshold]})
       ELSE UNCHANGED inflight
    /\ UNCHANGED <<mounted, targetImage, isScanning, status, similarity,
                   threshold, fps, intervalRef, timers>>

\* what the awaited requests of one verifyFrame call come back with
Outcomes ==
    {[kind |-> "throw", similarity |-> 0], [kind |-> "error", similarity |-> 0]}
        \cup {[kind |-> "ok", similarity |-> s] : s \in Sims}

\* the comparison against the default threshold instead of the scan's
\* (a mutant of MeetsThreshold)
MeetsThreshold_Default(out, thr) ==
    out.kind = "ok" /\ out.similarity >= DefaultThreshold

\* data.verification?.similarity >= threshold: false when there is none
MeetsThreshold(out, thr) == out.kind = "ok" /\ out.similarity >= thr

\* verifyFrame whose catch block stops the scan (a mutant of CompleteVerify)
CompleteVerify_StopOnThrow(c, out) ==
    /\ BagIn(c, inflight)
    /\ inflight' = inflight (-) SetToBag({c})
    /\ IF out.kind = "throw"
       THEN /\ stopScanning
            /\ UNCHANGED <<status, similarity>>
       ELSE IF MeetsThreshold(out, c.threshold)
       THEN /\ status' = (IF mounted THEN "success" ELSE status)
            /\ similarity' = (IF mounted THEN <<out.similarity>> ELSE similarity)
            /\ stopScanning
       ELSE /\ similarity' = (IF mounted THEN <<out.similarity>> ELSE similarity)
            /\ UNCHANGED <<isScanning, status, intervalRef, timers>>
    /\ UNCHANGED <<mounted, targetImage, threshold, fps>>

\* verifyFrame from its last await on, for the suspended call c
CompleteVerify(c, out) ==
    /\ BagIn(c, inflight)
    /\ inflight' = inflight (-) SetToBag({c})
    /\ IF out.kind = "throw"
       THEN UNCHANGED <<isScanning, status, similarity, intervalRef, timers>>
       ELSE IF MeetsThreshold(out, c.threshold)
       THEN /\ status' = (IF mounted THEN "success" ELSE status)
            /\ similarity' = (IF mounted THEN <<out.similarity>> ELSE similarity)
            /\ stopScanning
       ELSE /\ similarity' = (IF mounted THEN <<out.similarity>> ELSE similarity)
            /\ UNCHANGED <<isScanning, status, intervalRef, timers>>
    /\ UNCHANGED <<mounted, targetImage, threshold, fps>>

\* the page unmounting without the effect's cleanup (a mutant of Unmount)
Unmount_NoCleanup ==
    /\ mounted
    /\ mounted' = FALSE
    /\ UNCHANGED <<targetImage, isScanning, status, similarity, threshold, fps,
                   intervalRef, timers, inflight>>

\* the page unmounts: the effect's cleanup calls stopScanning
Unmount ==
    /\ mounted
    /\ mounted' = FALSE
    /\ stopScanning
    /\ UNCHANGED <<targetImage, status, similarity, threshold, fps, inflight>>

\* history of Unmount: was a scan running, its timer set
RecordUnmount == unmountedScanning' = (isScanning /\ timers # {})

(***************************************************************************)
(* API keys of the API-guide service: src/unnamed/part_010                 *)
(***************************************************************************)
PrefixLen == 7
UuidLen == 32

HexDigit(i) == <<"1", "2", "3", "4", "5", "6", "7", "8", "9", "a", "b", "c",
                 "d", "e", "f">>[((i - 1) % 15) + 1]

\* The i-th value of crypto.randomUUID().replace(/-/g, ""): 32 hex digits.
\* Odd i differ only in the last digit, so their keys share the 7-character
\* prefix; even i differ in the first digit.
Uuid(i) == [j \in 1..UuidLen |->
               IF j = (IF i % 2 = 1 THEN UuidLen ELSE 1) THEN HexDigit(i) ELSE "0"]
UuidPool == {Uuid(i) : i \in 1..NumUuids}
\* the salt Bun.password.hash draws; nothing in the repository reads its value
Salts == {<<"salt", "1">>}

\* "sk_" + uuid
KeyOf(uuid) == <<"s", "k", "_">> \o uuid

\* Bun.password.hash: a salted one-way hash, written as the tag, the salt and
\* the password it was made from; only Verify reads the password back
PasswordHash(key, salt) == <<"$argon2id$">> \o salt \o key

\* Bun.password.verify comparing only the stored prefix's worth of the key
\* (a mutant of PasswordVerify)
PasswordVerify_PrefixOnly(key, hash) ==
    /\ Len(hash) >= 3 + PrefixLen
    /\ Len(key) >= PrefixLen
    /\ SubSeq(hash, 4, 3 + PrefixLen) = SubSeq(key, 1, PrefixLen)

\* Bun.password.verify
PasswordVerify(key, hash) ==
    /\ Len(hash) = 3 + Len(key)
    /\ hash[1] = "$argon2id$"
    /\ SubSeq(hash, 4, Len(hash)) = key

\* generateApiKey
generateApiKey(uuid, salt) ==
    LET key == KeyOf(uuid)
    IN  [key |-> key, hash |-> PasswordHash(key, salt),
         prefix |-> SubSeq(key, 1, PrefixLen)]

\* the row of POST /admin/keys with the plaintext key in the key_hash column
\* (a mutant of NewKeyRow)
NewKeyRow_Plaintext(id, name, gen, at) ==
    [id |-> id, keyHash |-> gen.key, prefix |-> gen.prefix, name |-> name,
     createdAt |-> at]

\* db.insert(apiKeys).values({ name, keyHash: hash, prefix })
NewKeyRow(id, name, gen, at) ==
    [id |-> id, keyHash |-> gen.hash, prefix |-> gen.prefix, name |-> name,
     createdAt |-> at]

\* the whole row in the dashboard (a mutant of DashboardRow)
DashboardRow_WholeRow(k) == k

\* what the dashboard template renders of one row: name, prefix, createdAt
\* and the id in the revoke form's action
DashboardRow(k) ==
    [id |-> k.id, prefix |-> k.prefix, name |-> k.name, createdAt |-> k.createdAt]

\* the name field of the form: <<>> when the body has none, else <<name>>
\* with the name as its characters
NameInputs == {<<>>, << <<"a", "p", "p">> >>}

\* keys a caller may present: every key generateApiKey can make, and the
\* prefix the dashboard shows for the first of them
PresentedKeys ==
    {KeyOf(u) : u \in UuidPool} \cup {SubSeq(KeyOf(Uuid(1)), 1, PrefixLen)}
\* the x-api-key header: <<>> when absent, <<k>> otherwise; the empty string
\* is the empty sequence of characters
HeaderInputs == {<<>>, << <<>> >>} \cup {<<k>> : k \in PresentedKeys}

\* the routes of the claim; apiKeyAuth does not read the route, so a request
\* is given its route when its handler runs
Routes == {"detect", "recognize", "verify", "search", "enroll"}

\* history: the plaintext keys in force and the revoked ones
ActiveSecrets == {p.key : p \in {q \in handedOut : q.id \notin revokedIds}}
RevokedSecrets == {p.key : p \in {q \in handedOut : q.id \in revokedIds}}

\* rows in rowid order, as db.select().from(apiKeys) returns them
RECURSIVE RowsInOrder(_)
RowsInOrder(rows) ==
    IF rows = {} THEN <<>>
    ELSE LET first == CHOOSE r \in rows : \A q \in rows : r.id <= q.id
         IN  <<first>> \o RowsInOrder(rows \ {first})

CredInit ==
    /\ now = 0
    /\ apiKeys = {}
    /\ nextKeyId = 0
    /\ usedUuids = 0
    /\ pendingKeys = {}
    /\ requests = {}
    /\ handedOut = {}
    /\ revokedIds = {}
    /\ lastEngineCall = [server |-> "none", route |-> "none", checked |-> TRUE,
                         valid |-> TRUE]

\* POST /admin/keys up to the end of generateApiKey (await Bun.password.hash).
\* crypto.randomUUID never repeats a value; which unused value it returns
\* makes no difference to the code, so the pool is taken in order.
IssueGenerate(name, salt) ==
    /\ Cardinality(pendingKeys) < MaxPending
    /\ usedUuids < NumUuids
    /\ usedUuids' = usedUuids + 1
    /\ pendingKeys' = pendingKeys \cup
           {[name |-> name, gen |-> generateApiKey(Uuid(usedUuids + 1), salt)]}
    /\ UNCHANGED <<now, apiKeys, nextKeyId, requests, handedOut, revokedIds,
                   lastEngineCall>>

\* POST /admin/keys from the insert on: the row, then the "Key Generated!"
\* page showing the key (recorded in handedOut). Without a name the NOT NULL
\* column rejects the insert and the request ends in an error page.
IssueInsert(p) ==
    /\ p \in pendingKeys
    /\ pendingKeys' = pendingKeys \ {p}
    /\ IF p.name = <<>>
       THEN UNCHANGED <<apiKeys, nextKeyId, handedOut>>
       ELSE /\ nextKeyId' = nextKeyId + 1
            /\ apiKeys' = apiKeys \cup
                   {NewKeyRow(nextKeyId + 1, p.name[1], p.gen, now)}
            /\ handedOut' = handedOut \cup
                   {[id |-> nextKeyId + 1, key |-> p.gen.key]}
    /\ UNCHANGED <<now, usedUuids, requests, revokedIds, lastEngineCall>>

\* the delete of POST /admin/keys/:id/delete leaving the row in place
\* (a mutant of DeleteKey)
DeleteKey_Nothing(rows, id) == rows

\* db.delete(apiKeys).where(eq(apiKeys.id, id))
DeleteKey(rows, id) == {k \in rows : k.id # id}

\* POST /admin/keys/:id/delete
Revoke(id) ==
    /\ apiKeys' = DeleteKey(apiKeys, id)
    /\ revokedIds' = revokedIds \cup {k.id : k \in {r \in apiKeys : r.id = id}}
    /\ UNCHANGED <<now, nextKeyId, usedUuids, pendingKeys, requests, handedOut,
                   lastEngineCall>>

\* GET /admin: the rows the dashboard page shows for a table
Dashboard(rows) == {DashboardRow(k) : k \in rows}

\* apiKeyAuth up to the first await of validateApiKey: a missing or empty
\* header is refused at once, otherwise validateApiKey reads the table.
\* active and revoked record, for the claims, what the presented key was when
\* validateApiKey was called. Requests share nothing but the table they read,
\* so one request is followed at a time, against any activity of the admin.
AuthStart(header) ==
    /\ requests = {}
    /\ LET none == header = <<>> \/ header[1] = <<>>
           key == IF none THEN <<>> ELSE header[1]
       IN  requests' = requests \cup ({
               [key |-> key,
                pc |-> IF none THEN "unauthorized" ELSE "verifying",
                todo |-> IF none THEN <<>> ELSE RowsInOrder(apiKeys),
                active |-> key \in ActiveSecrets,
                revoked |-> key \in RevokedSecrets]})
    /\ UNCHANGED <<now, apiKeys, nextKeyId, usedUuids, pendingKeys,
                   handedOut, revokedIds, lastEngineCall>>

\* one turn of validateApiKey's loop (await Bun.password.verify), and the
\* return false after the last row
AuthVerify(r) ==
    /\ r \in requests
    /\ r.pc = "verifying"
    /\ LET next ==
               IF r.todo = <<>> THEN [r EXCEPT !.pc = "unauthorized"]
               ELSE IF PasswordVerify(r.key, Head(r.todo).keyHash)
               THEN [r EXCEPT !.pc = "authorized", !.todo = <<>>]
               ELSE [r EXCEPT !.todo = Tail(r.todo)]
       IN  requests' = (requests \ {r}) \cup {next}
    /\ UNCHANGED <<now, apiKeys, nextKeyId, usedUuids, pendingKeys,
                   handedOut, revokedIds, lastEngineCall>>

\* apiKeyAuth letting every request through (a mutant of MayProceed)
MayProceed_Always(r) == r.pc \in {"authorized", "unauthorized"}

\* apiKeyAuth reaches await next() only when validateApiKey returned true
MayProceed(r) == r.pc = "authorized"

\* the 401 of apiKeyAuth
Respond401(r) ==
    /\ r \in requests
    /\ r.pc = "unauthorized"
    /\ ~MayProceed(r)
    /\ requests' = requests \ {r}
    /\ UNCHANGED <<now, apiKeys, nextKeyId, usedUuids, pendingKeys,
                   handedOut, revokedIds, lastEngineCall>>

\* await next(): the handler of a protected route calls uniface (and the
\* faces table for search and enroll)
Handler(r, route) ==
    /\ r \in requests
    /\ MayProceed(r)
    /\ requests' = requests \ {r}
    /\ lastEngineCall' = [server |-> "api-guide", route |-> route,
                          checked |-> r.pc = "authorized", valid |-> r.active]
    /\ UNCHANGED <<now, apiKeys, nextKeyId, usedUuids, pendingKeys,
                   handedOut, revokedIds>>

\* a route of the Next.js demo (src/app/api/*/route.ts): the handler calls
\* uniface and the faces table; no credential is asked for
DemoRoute(route) ==
    /\ lastEngineCall' = [server |-> "demo", route |-> route, checked |-> FALSE,
                          valid |-> FALSE]
    /\ UNCHANGED <<now, apiKeys, nextKeyId, usedUuids, pendingKeys, requests,
                   handedOut, revokedIds>>

(***************************************************************************)
(* Face search and enrolment: src/unnamed/part_000,                        *)
(* src/app/api/faces/route.ts                                              *)
(***************************************************************************)
TopK == 10
VerifyThreshold == 70

\* The embedding uniface.recognize returns for an image, in tenths: images 1
\* to 3 show the faces E1 = [1,0,0,0], E3 = [0.9,0.1,0,0] and E2 = [0,1,0,0];
\* any other image shows no face, and recognize throws (<<>>).
Recognize(img) ==
    CASE img = 1 -> <<10, 0, 0, 0>>
      [] img = 2 -> <<9, 1, 0, 0>>
      [] img = 3 -> <<0, 10, 0, 0>>
      [] OTHER -> <<>>

\* images offered for enrolment and as probes (0 shows no face)
EnrollImages == {0, 1, 2}
ProbeImages == {0, 1, 2, 3}
\* the name field of the enrolment form: <<>> when missing, else <<name>>
\* with the name as its characters (<< <<>> >> is the empty string)
FaceNameInputs == {<<>>, << <<>> >>, << <<"a", "n", "n">> >>}
\* the file field of the enrolment form: <<>> when missing, else <<image>>
FileInputs == {<<>>} \cup {<<img>> : img \in EnrollImages}
\* the embedding field of a POST /api/search/embedding body: <<>> when
\* missing, else <<array>>; the second array is shorter than an embedding
EmbeddingInputs == {<<>>, << <<10, 0, 0, 0>> >>, << <<10, 0>> >>}

\* the length of the embeddings uniface.recognize returns
EmbDim == Len(Recognize(1))

\* !name accepting the empty string (a mutant of NameMissing)
NameMissing_NullOnly(name) == name = <<>>

\* !name: the field is missing or is the empty string
NameMissing(name) == IF name = <<>> THEN TRUE ELSE name[1] = <<>>

Dot(a, b) == LET n == Len(a)
                 f[i \in 0..n] == IF i = 0 THEN 0 ELSE f[i - 1] + a[i] * b[i]
             IN  f[n]

\* the largest r in lo..hi with r * r <= n
RECURSIVE SqrtBetween(_, _, _)
SqrtBetween(n, lo, hi) ==
    IF lo = hi THEN lo
    ELSE LET mid == (lo + hi + 1) \div 2
         IN  IF mid * mid <= n THEN SqrtBetween(n, mid, hi)
             ELSE SqrtBetween(n, lo, mid - 1)

ISqrt(n) == SqrtBetween(n, 0, 100)

\* The similarity of uniface.verifyEmbedding: the cosine of the two vectors,
\* clamped to [0,1], as a percentage rounded down.
CosineSimilarity(a, b) ==
    LET d == Dot(a, b)
    IN  IF d <= 0 THEN 0
        ELSE ISqrt((d * d * 10000) \div (Dot(a, a) * Dot(b, b)))

\* uniface.verifyEmbedding(a, b)
verifyEmbedding(a, b) ==
    LET sim == CosineSimilarity(a, b)
    IN  [similarity |-> sim, verified |-> sim >= VerifyThreshold]

\* the text without the last number (a mutant of StringifyEmbedding)
StringifyEmbedding_Truncated(e) == [i \in 1..(Len(e) - 1) |-> <<"num", e[i]>>]

\* JSON.stringify(Array.from(embedding)): the numbers, to text
StringifyEmbedding(e) == [i \in 1..Len(e) |-> <<"num", e[i]>>]
\* new Float32Array(JSON.parse(text)): the text, back to numbers
ParseEmbedding(t) == [i \in 1..Len(t) |-> t[i][2]]

\* the matches of this request behind those of the search before it, as if
\* the matches array outlived the request (a mutant of Matches)
Matches_KeptAcrossCalls(probe, rows) ==
    (IF lastSearch.route = "none" THEN <<>> ELSE lastSearch.body) \o
        [i \in 1..Len(rows) |->
            LET v == verifyEmbedding(probe, ParseEmbedding(rows[i].embedding))
            IN  [face |-> rows[i], similarity |-> v.similarity,
                 verified |-> v.verified]]

\* the loop over allFaces: one match per row, in the order of the rows
Matches(probe, rows) ==
    [i \in 1..Len(rows) |->
        LET v == verifyEmbedding(probe, ParseEmbedding(rows[i].embedding))
        IN  [face |-> rows[i], similarity |-> v.similarity,
             verified |-> v.verified]]

\* x put into a list sorted by the comparator b.similarity - a.similarity,
\* behind every element that does not come after it
RECURSIVE InsertMatch(_, _)
InsertMatch(x, sorted) ==
    IF sorted = <<>> THEN <<x>>
    ELSE IF Head(sorted).similarity >= x.similarity
    THEN <<Head(sorted)>> \o InsertMatch(x, Tail(sorted))
    ELSE <<x>> \o sorted

\* the matches left in the order of the rows (a mutant of SortMatches)
SortMatches_Unsorted(ms) == ms

\* matches.sort((a, b) => b.similarity - a.similarity): Array.prototype.sort
\* is stable, so equal similarities keep the order of the rows
SortMatches(ms) ==
    LET f[i \in 0..Len(ms)] ==
            IF i = 0 THEN <<>> ELSE InsertMatch(ms[i], f[i - 1])
    IN  f[Len(ms)]

\* the matches returned without truncation (a mutant of SliceTopK)
SliceTopK_All(ms) == ms

\* matches.slice(0, 10)
SliceTopK(ms) == SubSeq(ms, 1, IF Len(ms) < TopK THEN Len(ms) ELSE TopK)

\* the rows of a table, last row first
Reverse(rows) == [i \in 1..Len(rows) |-> rows[Len(rows) + 1 - i]]

\* db.select().from(faces) has no ORDER BY, and SQL leaves the order of such
\* a result to the engine: SQLite walks the table by rowid, upwards, or
\* downwards when reverse_unordered_selects is on. rows is in rowid order.
ScanOrders == {"rowid", "reverse"}
SelectFrom(rows, ord) == IF ord = "rowid" THEN rows ELSE Reverse(rows)
SelectOrders(rows) == {SelectFrom(rows, ord) : ord \in ScanOrders}

\* POST /api/search for a probe image: [status |-> 200, body |-> matches], or
\* the 500 of the catch when recognize throws
Search(img, rows) ==
    LET probe == Recognize(img)
    IN  IF probe = <<>> THEN [status |-> 500, body |-> <<>>]
        ELSE [status |-> 200,
              body |-> SliceTopK(SortMatches(Matches(probe, rows)))]

\* a k field in the form of a search request: <<>> when absent, else <<k>>
KInputs == {<<>>, <<2>>}

\* POST /api/search for a request that carries a k field: the handler reads
\* formData.get("file") and no other field
SearchWithK(img, k, rows) == Search(img, rows)

\* uniface.verifyEmbedding as the guide's search by embedding meets it: with
\* two lengths the library, whose code is not in the repository, throws (see
\* SearchEmbedding) or answers without a match, shown as similarity 0
LibVerify(a, b) ==
    IF Len(a) = Len(b) THEN verifyEmbedding(a, b)
    ELSE [similarity |-> 0, verified |-> FALSE]
LibOutcomes == {"throws", "answers"}

\* the loop of the guide's search handlers: the match carries id, name and
\* createdAt of the row
GuideMatches(probe, rows) ==
    [i \in 1..Len(rows) |->
        LET v == LibVerify(probe, ParseEmbedding(rows[i].embedding))
        IN  [face |-> [id |-> rows[i].id, name |-> rows[i].name,
                       createdAt |-> rows[i].createdAt],
             similarity |-> v.similarity, verified |-> v.verified]]

\* the id the AUTOINCREMENT column gives, read before the previous insert
\* was committed (a mutant of NextFaceId)
NextFaceId_Stale(rows) == IF Len(rows) < 2 THEN 1 ELSE rows[Len(rows) - 1].id + 1

\* integer("id").primaryKey({ autoIncrement: true }): one more than the
\* largest id the table has held; no row of faces is ever deleted
NextFaceId(rows) == IF rows = <<>> THEN 1 ELSE rows[Len(rows)].id + 1

\* an insert that replaces the embedding of a row of the same name, when
\* there is one (a mutant of InsertFace)
InsertFace_Upsert(rows, name, embedding, at) ==
    IF \E i \in 1..Len(rows) : rows[i].name = name
    THEN [i \in 1..Len(rows) |->
             IF rows[i].name = name
             THEN [rows[i] EXCEPT !.embedding = embedding, !.createdAt = at]
             ELSE rows[i]]
    ELSE Append(rows, [id |-> NextFaceId(rows), name |-> name,
                       embedding |-> embedding, createdAt |-> at])

\* db.insert(faces).values({ name, embedding }): the row gets the next id of
\* the AUTOINCREMENT column and unixepoch() as createdAt
InsertFace(rows, name, embedding, at) ==
    Append(rows, [id |-> NextFaceId(rows), name |-> name,
                  embedding |-> embedding, createdAt |-> at])

\* x put into a list sorted by createdAt, latest first, behind every row
\* that is not earlier than it
RECURSIVE InsertByCreatedAt(_, _)
InsertByCreatedAt(x, sorted) ==
    IF sorted = <<>> THEN <<x>>
    ELSE IF Head(sorted).createdAt >= x.createdAt
    THEN <<Head(sorted)>> \o InsertByCreatedAt(x, Tail(sorted))
    ELSE <<x>> \o sorted

\* the rows left as they were read (a mutant of OrderByCreatedAtDesc)
OrderByCreatedAtDesc_Unsorted(rows) == rows

\* .orderBy(desc(faces.createdAt)): rows of the same second stay in the
\* order the table was read in
OrderByCreatedAtDesc(rows) ==
    LET f[i \in 0..Len(rows)] ==
            IF i = 0 THEN <<>> ELSE InsertByCreatedAt(rows[i], f[i - 1])
    IN  f[Len(rows)]

\* GET /api/faces: db.select().from(faces).orderBy(desc(faces.createdAt))
ListAll(rows, ord) == OrderByCreatedAtDesc(SelectFrom(rows, ord))

\* a response: HTTP status, the error field of the body ("" when it has
\* none) and the rows of the body; name is the name field of the request it
\* answers when that is an enrolment
Reply(op, code, error, body) ==
    [op |-> op, name |-> <<>>, status |-> code, error |-> error, body |-> body]
EnrollReply(name, code, error, body) ==
    [op |-> "enroll", name |-> name, status |-> code, error |-> error,
     body |-> body]

\* the 500 of the catch of POST /api/search, or no error
SearchError(res) == IF res.status = 200 THEN "" ELSE "Failed to search faces"

\* POST /api/search/embedding of the guide from the table read on: every row
\* is compared, and lib is what the library does when a row's length is not
\* the probe's
SearchByEmbedding(probe, rows, lib) ==
    IF /\ lib = "throws"
       /\ \E i \in 1..Len(rows) :
              Len(ParseEmbedding(rows[i].embedding)) # Len(probe)
    THEN [status |-> 500, error |-> "Internal Error", body |-> <<>>]
    ELSE [status |-> 200, error |-> "",
          body |-> SliceTopK(SortMatches(GuideMatches(probe, rows)))]

\* the record of a search: its route, probe and the order the table was
\* read in, whether the handler read the table, the table as it was, the
\* answer, and whether the same search over the same table came just before
SearchRecord(route, probe, ord, read, res, error) ==
    [route |-> route, probe |-> probe, order |-> ord, read |-> read,
     store |-> faces, status |-> res.status, error |-> error,
     body |-> res.body,
     repeat |-> /\ lastSearch.route = route
                /\ lastSearch.probe = probe
                /\ lastSearch.order = ord
                /\ lastSearch.store = faces]

FaceInit ==
    /\ faces = <<>>
    /\ pendingFaces = {}
    /\ lastReply = Reply("none", 0, "", <<>>)
    /\ lastSearch = [route |-> "none", probe |-> <<>>, order |-> "rowid",
                     read |-> FALSE, store |-> <<>>, status |-> 0,
                     error |-> "", body |-> <<>>, repeat |-> FALSE]
    /\ overlapped = FALSE

\* POST /api/faces without a file or without a name: the 400
EnrollReject(name, file) ==
    /\ IF file = <<>> THEN TRUE ELSE NameMissing(name)
    /\ lastReply' = EnrollReply(name, 400, "File and name are required", <<>>)
    /\ UNCHANGED <<faces, pendingFaces, lastSearch>>

\* POST /api/faces with an image uniface.recognize throws on: the 500 of
\* the catch
EnrollFails(name, img) ==
    /\ ~NameMissing(name)
    /\ Recognize(img) = <<>>
    /\ lastReply' = EnrollReply(name, 500, "Failed to add face", <<>>)
    /\ UNCHANGED <<faces, pendingFaces, lastSearch>>

\* POST /api/faces up to the end of uniface.recognize, for a request with
\* file and name and an image that shows a face
EnrollRecognize(name, img) ==
    /\ Cardinality(pendingFaces) < MaxEnrolling
    /\ ~NameMissing(name)
    /\ Recognize(img) # <<>>
    /\ pendingFaces' = pendingFaces \cup
           {[name |-> name[1],
             embedding |-> StringifyEmbedding(Recognize(img))]}
    /\ UNCHANGED <<faces, lastReply, lastSearch>>

\* POST /api/faces from db.insert(faces) on: the insert, and the 200 with
\* the row .returning() gives
EnrollInsert(p) ==
    /\ p \in pendingFaces
    /\ Len(faces) < MaxFaces
    /\ pendingFaces' = pendingFaces \ {p}
    /\ LET rows == InsertFace(faces, p.name, p.embedding, now)
       IN  /\ faces' = rows
           /\ lastReply' = EnrollReply(<<p.name>>, 200, "", <<rows[Len(rows)]>>)
    /\ UNCHANGED lastSearch

\* the insert failing after it wrote a row without its embedding
\* (a mutant of EnrollInsertFails)
EnrollInsertFails_HalfWritten(p) ==
    /\ p \in pendingFaces
    /\ Len(faces) < MaxFaces
    /\ pendingFaces' = pendingFaces \ {p}
    /\ faces' = InsertFace(faces, p.name, <<>>, now)
    /\ lastReply' = EnrollReply(<<p.name>>, 500, "Failed to add face", <<>>)
    /\ UNCHANGED lastSearch

\* POST /api/faces when db.insert(faces) throws (the database is locked,
\* full or gone): the single INSERT statement writes nothing, and the catch
\* answers the 500
EnrollInsertFails(p) ==
    /\ p \in pendingFaces
    /\ pendingFaces' = pendingFaces \ {p}
    /\ lastReply' = EnrollReply(<<p.name>>, 500, "Failed to add face", <<>>)
    /\ UNCHANGED <<faces, lastSearch>>

\* history of EnrollInsert: was another enrolment past its recognize
RecordOverlap(p) == overlapped' = (overlapped \/ pendingFaces # {p})

\* POST /api/search with a file, the table read in the order ord; the
\* matches of the answer are Search's
SearchRequest(img, ord) ==
    LET res == Search(img, SelectFrom(faces, ord))
    IN  /\ lastReply' = Reply("search", res.status, SearchError(res), <<>>)
        /\ UNCHANGED <<faces, pendingFaces>>

\* history of SearchRequest
RecordSearch(img, ord) ==
    LET res == Search(img, SelectFrom(faces, ord))
    IN  lastSearch' = SearchRecord("search", Recognize(img), ord,
                                   Recognize(img) # <<>>, res, SearchError(res))

\* POST /api/search/embedding of the guide: the 400 without an embedding;
\* otherwise the table is read, then every row is compared
SearchEmbedding(emb, ord, lib) ==
    /\ lastReply' =
           IF emb = <<>>
           THEN Reply("searchEmbedding", 400, "Embedding required", <<>>)
           ELSE LET res == SearchByEmbedding(emb[1], SelectFrom(faces, ord), lib)
                IN  Reply("searchEmbedding", res.status, res.error, <<>>)
    /\ UNCHANGED <<faces, pendingFaces>>

\* history of SearchEmbedding: a request without an embedding is no search
RecordSearchEmbedding(emb, ord, lib) ==
    IF emb = <<>> THEN UNCHANGED lastSearch
    ELSE LET res == SearchByEmbedding(emb[1], SelectFrom(faces, ord), lib)
         IN  lastSearch' = SearchRecord("searchEmbedding", emb[1], ord, TRUE,
                                        res, res.error)

\* GET /api/faces, the table read in the order ord
ListFaces(ord) ==
    /\ lastReply' = Reply("list", 200, "", ListAll(faces, ord))
    /\ UNCHANGED <<faces, pendingFaces, lastSearch>>

(***************************************************************************)
(* POST /api/kyc of the API-guide service: src/unnamed/part_010            *)
(***************************************************************************)
\* requests followed at once between their awaits
MaxKyc == 2

\* the selfie and id_card fields of the body: <<>> when the field is not a
\* File, else <<image>>
KycFileInputs == {<<>>, <<1>>, <<2>>}

\* what await uniface.detect(selfieBuffer) gives: it throws, or a result with
\* or without a box whose spoofing field is absent (<<>>), false or true
NotDetected == [kind |-> "none", box |-> FALSE, spoofing |-> <<>>]
DetectOutcomes ==
    {[kind |-> "throw", box |-> FALSE, spoofing |-> <<>>]}
        \cup {[kind |-> "ok", box |-> b, spoofing |-> sp] :
                 b \in BOOLEAN, sp \in {<<>>, <<FALSE>>, <<TRUE>>}}

\* what await uniface.verify(selfieBuffer, idCardBuffer) gives
VerifyOutcomes ==
    {[kind |-> "throw", verified |-> FALSE, similarity |-> 0]}
        \cup {[kind |-> "ok", verified |-> v, similarity |-> sim] :
                 v \in BOOLEAN, sim \in Sims}

\* the spoof flag read as always false (a mutant of IsSpoof)
IsSpoof_Never(d) == FALSE

\* selfieResult.spoofing || false
IsSpoof(d) == d.spoofing = <<TRUE>>

\* a response of POST /api/kyc; seen and verifyCalled are history: what
\* uniface.detect gave the request and whether it called uniface.verify
KycAnswer(code, error, verified, sim, liveness, message, seen, called) ==
    [status |-> code, error |-> error, verified |-> verified,
     similarity |-> sim, liveness |-> liveness, message |-> message,
     seen |-> seen, verifyCalled |-> called]
KycError(code, error, seen, called) ==
    KycAnswer(code, error, <<>>, <<>>, <<>>, "", seen, called)

KycInit ==
    /\ kycPending = {}
    /\ kycReply = KycError(0, "", NotDetected, FALSE)

\* a body without one of the two files: the 400
KycReject(selfie, idCard) ==
    /\ selfie = <<>> \/ idCard = <<>>
    /\ kycReply' = KycError(400, "Both selfie and id_card are required",
                            NotDetected, FALSE)
    /\ UNCHANGED kycPending

\* the handler up to await uniface.detect(selfieBuffer)
KycStart(selfie, idCard) ==
    /\ selfie # <<>> /\ idCard # <<>>
    /\ Cardinality(kycPending) < MaxKyc
    /\ kycPending' = kycPending \cup
           {[selfie |-> selfie[1], idCard |-> idCard[1], pc |-> "detect",
             seen |-> NotDetected]}
    /\ UNCHANGED kycReply

\* from the result of uniface.detect to the next response or to the call of
\* uniface.verify
KycDetected(r, d) ==
    /\ r \in kycPending
    /\ r.pc = "detect"
    /\ IF d.kind = "throw"
       THEN /\ kycReply' = KycError(500, "KYC verification failed", d, FALSE)
            /\ kycPending' = kycPending \ {r}
       ELSE IF ~d.box
       THEN /\ kycReply' = KycError(400, "No face detected in selfie", d, FALSE)
            /\ kycPending' = kycPending \ {r}
       ELSE IF IsSpoof(d)
       THEN /\ kycReply' = KycAnswer(200, "", <<FALSE>>, <<0>>, <<FALSE>>,
                   "Liveness check failed: Spoof detected in selfie", d, FALSE)
            /\ kycPending' = kycPending \ {r}
       ELSE /\ kycPending' = (kycPending \ {r}) \cup
                   {[r EXCEPT !.pc = "verify", !.seen = d]}
            /\ UNCHANGED kycReply

\* from the result of uniface.verify to the response
KycVerified(r, v) ==
    /\ r \in kycPending
    /\ r.pc = "verify"
    /\ kycPending' = kycPending \ {r}
    /\ kycReply' =
           IF v.kind = "throw"
           THEN KycError(500, "KYC verification failed", r.seen, TRUE)
           ELSE KycAnswer(200, "", <<v.verified>>, <<v.similarity>>, <<TRUE>>,
                          IF v.verified THEN "KYC Successful"
                          ELSE "Face mismatch between selfie and ID",
                          r.seen, TRUE)

\* the KYC route alone
KycNext ==
    \/ (\E selfie \in KycFileInputs, idCard \in KycFileInputs :
           KycReject(selfie, idCard))
           /\ UNCHANGED <<scanVars, credVars, faceVars, detectVars, searchVars>>
    \/ (\E selfie \in KycFileInputs, idCard \in KycFileInputs :
           KycStart(selfie, idCard))
           /\ UNCHANGED <<scanVars, credVars, faceVars, detectVars, searchVars>>
    \/ (\E r \in kycPending, d \in DetectOutcomes : KycDetected(r, d))
           /\ UNCHANGED <<scanVars, credVars, faceVars, detectVars, searchVars>>
    \/ (\E r \in kycPending, v \in VerifyOutcomes : KycVerified(r, v))
           /\ UNCHANGED <<scanVars, credVars, faceVars, detectVars, searchVars>>

(***************************************************************************)
(* Detection page: src/unnamed/part_003                                    *)
(***************************************************************************)
\* how the awaits of one detectFace call end: the fetch throws, res.json()
\* throws once the response time is set, the body has an error, the body
\* has no box, or the body is a detection with its box and flags
DetectReplies ==
    {[kind |-> k, spoofing |-> FALSE, multipleFaces |-> FALSE] :
        k \in {"throw", "badjson", "error", "nobox"}}
      \cup {[kind |-> "ok", spoofing |-> sp, multipleFaces |-> mf] :
               sp \in BOOLEAN, mf \in BOOLEAN}

DetectInit ==
    /\ dImage = NoImage
    /\ dLoading = FALSE
    /\ dResult = <<>>
    /\ dError = <<>>
    /\ dResponseTime = <<>>
    /\ dInflight = {}

\* handleFileSelect of the detection page; the sample selector that calls
\* it is rendered whatever the state
Detect_handleFileSelect(img) ==
    /\ dImage' = img
    /\ dResult' = <<>>
    /\ dError' = <<>>
    /\ dResponseTime' = <<>>
    /\ UNCHANGED <<dLoading, dInflight>>

\* the Change Image button: setImage(null)
Detect_ChangeImage ==
    /\ dImage # NoImage
    /\ dImage' = NoImage
    /\ UNCHANGED <<dLoading, dResult, dError, dResponseTime, dInflight>>

\* detectFace up to its first await; the button is disabled without an
\* image and while loading
detectFace ==
    /\ dImage # NoImage
    /\ ~dLoading
    /\ dLoading' = TRUE
    /\ dError' = <<>>
    /\ dInflight' = dInflight \cup {[image |-> dImage]}
    /\ UNCHANGED <<dImage, dResult, dResponseTime>>

\* detectFace from its awaits on, for the suspended call c
detectFace_Done(c, reply) ==
    /\ c \in dInflight
    /\ dInflight' = dInflight \ {c}
    /\ dLoading' = FALSE
    /\ dResponseTime' = IF reply.kind = "throw" THEN dResponseTime
                        ELSE <<c.image>>
    /\ CASE reply.kind \in {"throw", "badjson"} ->
              /\ dError' = <<"Detection failed. Please try again.">>
              /\ UNCHANGED dResult
         [] reply.kind = "error" ->
              /\ dError' = <<"Detection failed">>
              /\ dResult' = <<>>
         [] reply.kind = "nobox" ->
              /\ dError' = <<"No face detected in the image">>
              /\ dResult' = <<>>
         [] OTHER ->
              /\ dResult' = <<[image |-> c.image, box |-> TRUE,
                               spoofing |-> reply.spoofing,
                               multipleFaces |-> reply.multipleFaces]>>
              /\ UNCHANGED dError
    /\ UNCHANGED dImage

\* the detection page alone
DetectNext ==
    \/ (\E img \in Images : Detect_handleFileSelect(img))
           /\ UNCHANGED <<scanVars, credVars, faceVars, kycVars, searchVars>>
    \/ Detect_ChangeImage /\ UNCHANGED <<scanVars, credVars, faceVars, kycVars, searchVars>>
    \/ detectFace /\ UNCHANGED <<scanVars, credVars, faceVars, kycVars, searchVars>>
    \/ (\E c \in dInflight, reply \in DetectReplies : detectFace_Done(c, reply))
           /\ UNCHANGED <<scanVars, credVars, faceVars, kycVars, searchVars>>

(***************************************************************************)
(* Search page: src/unnamed/part_004, against POST /api/faces,             *)
(* GET /api/faces and POST /api/search                                     *)
(***************************************************************************)
\* fetchFaces calls followed at once
MaxFetches == 1

\* the images the page is given: one that shows a face, one that shows none
PageImages == {1, 4}
\* what may be typed into the name input
PageNames == {<<>>, <<"a", "n", "n">>}
NoResults == [error |-> "", matches |-> <<>>]

\* the page after its mount effect has called fetchFaces
SearchPageInit ==
    /\ sImage = NoImage
    /\ sName = <<>>
    /\ sLoading = FALSE
    /\ sMode = "search"
    /\ sResults = NoResults
    /\ sFaces = <<>>
    /\ sCalls = {}
    /\ sFetching = 1
    /\ sAlert = <<>>

\* fetchFaces from its awaits on: setFaces(data), or the fetch rejects and
\* nothing is set
fetchFaces_Done(ord, ok) ==
    /\ sFetching > 0
    /\ sFetching' = sFetching - 1
    /\ sFaces' = IF ok THEN ListAll(faces, ord) ELSE sFaces
    /\ UNCHANGED <<sImage, sName, sLoading, sMode, sResults, sCalls, sAlert>>
    /\ UNCHANGED <<faces, pendingFaces, lastReply, lastSearch>>

\* the two mode buttons
Search_setMode(m) ==
    /\ m # sMode
    /\ sMode' = m
    /\ UNCHANGED <<sImage, sName, sLoading, sResults, sFaces, sCalls,
                   sFetching, sAlert>>
    /\ UNCHANGED <<faces, pendingFaces, lastReply, lastSearch>>

\* the name input, rendered in add mode
Search_setName(n) ==
    /\ sMode = "add"
    /\ n # sName
    /\ sName' = n
    /\ UNCHANGED <<sImage, sLoading, sMode, sResults, sFaces, sCalls,
                   sFetching, sAlert>>
    /\ UNCHANGED <<faces, pendingFaces, lastReply, lastSearch>>

\* handleFileSelect of the search page; its pickers are rendered while no
\* image is set
Search_handleFileSelect(img) ==
    /\ sImage = NoImage
    /\ sImage' = img
    /\ sResults' = NoResults
    /\ UNCHANGED <<sName, sLoading, sMode, sFaces, sCalls, sFetching, sAlert>>
    /\ UNCHANGED <<faces, pendingFaces, lastReply, lastSearch>>

\* the Change Image button of the search page
Search_ChangeImage ==
    /\ sImage # NoImage
    /\ sImage' = NoImage
    /\ UNCHANGED <<sName, sLoading, sMode, sResults, sFaces, sCalls,
                   sFetching, sAlert>>
    /\ UNCHANGED <<faces, pendingFaces, lastReply, lastSearch>>

\* the button is disabled without an image, while loading, and in add mode
\* without a name
ButtonEnabled == sImage # NoImage /\ ~sLoading /\ (sMode = "add" => sName # <<>>)

\* a call of handleSearch or handleAdd at its awaits: pc is "sent" until the
\* server has taken the request, "recognized" between uniface.recognize and
\* the insert, "answered" once the response is made
Call(op, name, image, pc, code, body) ==
    [op |-> op, name |-> name, image |-> image, pc |-> pc, status |-> code,
     body |-> body]

\* handleSearch up to its awaits
handleSearch ==
    /\ sMode = "search"
    /\ ButtonEnabled
    /\ sLoading' = TRUE
    /\ sCalls' = sCalls \cup {Call("search", <<>>, sImage, "sent", 0, <<>>)}
    /\ UNCHANGED <<sImage, sName, sMode, sResults, sFaces, sFetching, sAlert>>
    /\ UNCHANGED <<faces, pendingFaces, lastReply, lastSearch>>

\* POST /api/search serving the page's request
ServeSearch(c, ord) ==
    /\ c \in sCalls
    /\ c.op = "search" /\ c.pc = "sent"
    /\ SearchRequest(c.image, ord)
    /\ LET res == Search(c.image, SelectFrom(faces, ord))
       IN  sCalls' = (sCalls \ {c}) \cup
               {Call("search", <<>>, c.image, "answered", res.status, res.body)}
    /\ UNCHANGED <<sImage, sName, sLoading, sMode, sResults, sFaces,
                   sFetching, sAlert, lastSearch>>

\* handleSearch from its awaits on: setResults(data) with the body whatever
\* the status, or the catch when a fetch rejects; finally setLoading(false)
handleSearch_Done(c, ok) ==
    /\ c \in sCalls
    /\ c.op = "search"
    /\ IF ok THEN c.pc = "answered" ELSE c.pc \in {"sent", "answered"}
    /\ sCalls' = sCalls \ {c}
    /\ sLoading' = FALSE
    /\ sResults' =
           IF ~ok THEN sResults
           ELSE IF c.status = 200 THEN [error |-> "", matches |-> c.body]
           ELSE [error |-> "Failed to search faces", matches |-> <<>>]
    /\ UNCHANGED <<sImage, sName, sMode, sFaces, sFetching, sAlert>>
    /\ UNCHANGED <<faces, pendingFaces, lastReply, lastSearch>>

\* handleAdd up to its awaits
handleAdd ==
    /\ sMode = "add"
    /\ ButtonEnabled
    /\ sLoading' = TRUE
    /\ sCalls' = sCalls \cup {Call("add", sName, sImage, "sent", 0, <<>>)}
    /\ UNCHANGED <<sImage, sName, sMode, sResults, sFaces, sFetching, sAlert>>
    /\ UNCHANGED <<faces, pendingFaces, lastReply, lastSearch>>

\* POST /api/faces serving the page's request: recognize throws and the
\* catch answers, or the request goes on to its insert, which stores the row
\* or throws
ServeAdd(c) ==
    /\ c \in sCalls
    /\ c.op = "add"
    /\ \/ /\ c.pc = "sent"
          /\ EnrollFails(<<c.name>>, c.image)
          /\ sCalls' = (sCalls \ {c}) \cup
                 {[c EXCEPT !.pc = "answered", !.status = lastReply'.status]}
       \/ /\ c.pc = "sent"
          /\ EnrollRecognize(<<c.name>>, c.image)
          /\ sCalls' = (sCalls \ {c}) \cup {[c EXCEPT !.pc = "recognized"]}
       \/ /\ c.pc = "recognized"
          /\ \E p \in pendingFaces :
                \/ Len(faces) < MaxRows /\ EnrollInsert(p)
                \/ EnrollInsertFails(p)
          /\ sCalls' = (sCalls \ {c}) \cup
                 {[c EXCEPT !.pc = "answered", !.status = lastReply'.status]}
    /\ UNCHANGED <<sImage, sName, sLoading, sMode, sResults, sFaces,
                   sFetching, sAlert>>

\* handleAdd from its awaits on. When no fetch rejected: setName(""),
\* setImage(null), fetchFaces() and the success alert, whatever the status
\* of the response; when one rejected, the catch; finally setLoading(false)
handleAdd_Done(c, ok) ==
    /\ c \in sCalls
    /\ c.op = "add"
    /\ IF ok THEN c.pc = "answered" /\ sFetching < MaxFetches
             ELSE c.pc \in {"sent", "answered"}
    /\ sCalls' = sCalls \ {c}
    /\ sLoading' = FALSE
    /\ IF ok
       THEN /\ sName' = <<>>
            /\ sImage' = NoImage
            /\ sFetching' = sFetching + 1
            /\ sAlert' = <<[name |-> c.name, image |-> c.image,
                            status |-> c.status]>>
       ELSE UNCHANGED <<sName, sImage, sFetching, sAlert>>
    /\ UNCHANGED <<sMode, sResults, sFaces>>
    /\ UNCHANGED <<faces, pendingFaces, lastReply, lastSearch>>

\* the search page and the routes it calls
PageNext ==
    \/ (\E ord \in ScanOrders, ok \in BOOLEAN : fetchFaces_Done(ord, ok))
           /\ UNCHANGED <<scanVars, credVars, overlapped, kycVars, detectVars>>
    \/ (\E m \in {"search", "add"} : Search_setMode(m))
           /\ UNCHANGED <<scanVars, credVars, overlapped, kycVars, detectVars>>
    \/ (\E n \in PageNames : Search_setName(n))
           /\ UNCHANGED <<scanVars, credVars, overlapped, kycVars, detectVars>>
    \/ (\E img \in PageImages : Search_handleFileSelect(img))
           /\ UNCHANGED <<scanVars, credVars, overlapped, kycVars, detectVars>>
    \/ Search_ChangeImage
           /\ UNCHANGED <<scanVars, credVars, overlapped, kycVars, detectVars>>
    \/ handleSearch
           /\ UNCHANGED <<scanVars, credVars, overlapped, kycVars, detectVars>>
    \/ (\E c \in sCalls, ord \in ScanOrders : ServeSearch(c, ord))
           /\ UNCHANGED <<scanVars, credVars, overlapped, kycVars, detectVars>>
    \/ (\E c \in sCalls, ok \in BOOLEAN : handleSearch_Done(c, ok))
           /\ UNCHANGED <<scanVars, credVars, overlapped, kycVars, detectVars>>
    \/ handleAdd
           /\ UNCHANGED <<scanVars, credVars, overlapped, kycVars, detectVars>>
    \/ (\E c \in sCalls : ServeAdd(c))
           /\ UNCHANGED <<scanVars, credVars, overlapped, kycVars, detectVars>>
    \/ (\E c \in sCalls, ok \in BOOLEAN : handleAdd_Done(c, ok))
           /\ UNCHANGED <<scanVars, credVars, overlapped, kycVars, detectVars>>

\* a second of unixepoch() goes by
AdvanceClock ==
    /\ now < MaxTime
    /\ now' = now + 1
    /\ UNCHANGED <<pageVars, scanVars, keyVars, faceVars>>

FaceNext ==
    \/ (\E name \in FaceNameInputs, img \in EnrollImages :
           EnrollRecognize(name, img)) /\ UNCHANGED <<pageVars, scanVars, credVars, overlapped>>
    \/ (\E p \in pendingFaces : EnrollInsert(p)) /\ UNCHANGED <<pageVars, scanVars, credVars, overlapped>>

\* enrolments and searches over a table of at most MaxRows rows, with the
\* history of the searches
QueryNext ==
    \/ (\E name \in FaceNameInputs, img \in EnrollImages :
           EnrollRecognize(name, img)) /\ UNCHANGED <<pageVars, scanVars, credVars, overlapped>>
    \/ (\E p \in pendingFaces : Len(faces) < MaxRows /\ EnrollInsert(p))
           /\ UNCHANGED <<pageVars, scanVars, credVars, overlapped>>
    \/ (\E img \in ProbeImages, ord \in ScanOrders :
           SearchRequest(img, ord) /\ RecordSearch(img, ord))
           /\ UNCHANGED <<pageVars, scanVars, credVars, overlapped>>
    \/ (\E emb \in EmbeddingInputs, ord \in ScanOrders, lib \in LibOutcomes :
           SearchEmbedding(emb, ord, lib) /\ RecordSearchEmbedding(emb, ord, lib))
           /\ UNCHANGED <<pageVars, scanVars, credVars, overlapped>>

\* every request to the faces table and the clock, over a table of at most
\* MaxRows rows; the history is of the inserts, not of the searches
StoreNext ==
    \/ (\E name \in FaceNameInputs, file \in FileInputs :
           EnrollReject(name, file)) /\ UNCHANGED <<pageVars, scanVars, credVars, overlapped>>
    \/ (\E name \in FaceNameInputs, img \in EnrollImages :
           EnrollFails(name, img)) /\ UNCHANGED <<pageVars, scanVars, credVars, overlapped>>
    \/ (\E name \in FaceNameInputs, img \in EnrollImages :
           EnrollRecognize(name, img)) /\ UNCHANGED <<pageVars, scanVars, credVars, overlapped>>
    \/ (\E p \in pendingFaces :
           Len(faces) < MaxRows /\ EnrollInsert(p) /\ RecordOverlap(p))
           /\ UNCHANGED <<pageVars, scanVars, credVars>>
    \/ (\E p \in pendingFaces : EnrollInsertFails(p))
           /\ UNCHANGED <<pageVars, scanVars, credVars, overlapped>>
    \/ (\E img \in ProbeImages, ord \in ScanOrders :
           SearchRequest(img, ord)) /\ UNCHANGED <<pageVars, scanVars, credVars, lastSearch, overlapped>>
    \/ (\E emb \in EmbeddingInputs, ord \in ScanOrders, lib \in LibOutcomes :
           SearchEmbedding(emb, ord, lib))
           /\ UNCHANGED <<pageVars, scanVars, credVars, lastSearch, overlapped>>
    \/ (\E ord \in ScanOrders : ListFaces(ord)) /\ UNCHANGED <<pageVars, scanVars, credVars, overlapped>>
    \/ AdvanceClock

CredNext ==
    \/ (\E name \in NameInputs, salt \in Salts :
           IssueGenerate(name, salt)) /\ UNCHANGED <<pageVars, scanVars, faceVars>>
    \/ (\E p \in pendingKeys : IssueInsert(p)) /\ UNCHANGED <<pageVars, scanVars, faceVars>>
    \/ (\E id \in 1..NumUuids : Revoke(id)) /\ UNCHANGED <<pageVars, scanVars, faceVars>>
    \/ (\E header \in HeaderInputs : AuthStart(header)) /\ UNCHANGED <<pageVars, scanVars, faceVars>>
    \/ (\E r \in requests : AuthVerify(r)) /\ UNCHANGED <<pageVars, scanVars, faceVars>>
    \/ (\E r \in requests : Respond401(r)) /\ UNCHANGED <<pageVars, scanVars, faceVars>>
    \/ (\E r \in requests, route \in Routes : Handler(r, route)) /\ UNCHANGED <<pageVars, scanVars, faceVars>>
    \/ (\E route \in Routes : DemoRoute(route)) /\ UNCHANGED <<pageVars, scanVars, faceVars>>

ScanNext ==
    \/ (\E img \in Images : HandleFileSelect(img)) /\ UNCHANGED <<pageVars, credVars, faceVars, unmountedScanning>>
    \/ (ChangeTarget) /\ UNCHANGED <<pageVars, credVars, faceVars, unmountedScanning>>
    \/ (\E v \in ThresholdChoices : SetThreshold(v)) /\ UNCHANGED <<pageVars, credVars, faceVars, unmountedScanning>>
    \/ (\E v \in FpsChoices : SetFps(v)) /\ UNCHANGED <<pageVars, credVars, faceVars, unmountedScanning>>
    \/ (StartScanning) /\ UNCHANGED <<pageVars, credVars, faceVars, unmountedScanning>>
    \/ (StopScanning) /\ UNCHANGED <<pageVars, credVars, faceVars, unmountedScanning>>
    \/ (Reset) /\ UNCHANGED <<pageVars, credVars, faceVars, unmountedScanning>>
    \/ (\E t \in timers, s \in BOOLEAN : Tick(t, s)) /\ UNCHANGED <<pageVars, credVars, faceVars, unmountedScanning>>
    \/ (\E c \in BagToSet(inflight), out \in Outcomes : CompleteVerify(c, out)) /\ UNCHANGED <<pageVars, credVars, faceVars, unmountedScanning>>
    \/ (Unmount /\ RecordUnmount) /\ UNCHANGED <<pageVars, credVars, faceVars>>

Init == ScanInit /\ CredInit /\ FaceInit /\ KycInit /\ DetectInit
            /\ SearchPageInit

\* the attendance page alone
SpecScan == Init /\ [][ScanNext]_vars

\* the API-key store and the requests it guards
SpecCred == Init /\ [][CredNext]_vars

\* enrolment into the faces table, and the searches over it
SpecSearch == Init /\ [][FaceNext]_vars

\* the faces table with every request to it answered, and the clock
SpecStore == Init /\ [][StoreNext]_vars

\* the searches and their history
SpecQuery == Init /\ [][QueryNext]_vars

\* the KYC route of the API-guide service
SpecKyc == Init /\ [][KycNext]_vars

\* the detection page
SpecDetect == Init /\ [][DetectNext]_vars

\* the search page
SpecPage == Init /\ [][PageNext]_vars

(***************************************************************************)
(* Claims about the live scan.                                             *)
(***************************************************************************)
\* C1: while a scan runs at most one frame comparison (verifyFrame call) is
\* outstanding; a tick that fires during one is skipped.
C1_AtMostOneInFlight == BagCardinality(inflight) <= 1

\* C2: a comparison that completes after the scan was stopped is discarded:
\* while the scanning flag is false no completion changes the status or the
\* similarity.
C2_LateResultDiscarded ==
    [][(mounted /\ ~isScanning
          /\ \E c \in BagToSet(inflight), out \in Outcomes : CompleteVerify(c, out))
       => (status' = status /\ similarity' = similarity)]_vars

\* C3: a verified comparison of a mounted page records success, the step that
\* records success clears the interval timer, and while success is recorded
\* no timer is active and no comparison is started.
C3_SuccessStopsTimer ==
    /\ [][\A c \in BagToSet(inflight), out \in Outcomes :
            (mounted /\ MeetsThreshold(out, c.threshold) /\ CompleteVerify(c, out))
                => status' = "success"]_vars
    /\ [][(status # "success" /\ status' = "success")
            => (timers' = {} /\ intervalRef' = <<>> /\ ~isScanning')]_vars
    /\ [](status = "success" => (timers = {} /\ intervalRef = <<>> /\ ~isScanning))
    /\ [][status = "success"
            => BagCardinality(inflight') <= BagCardinality(inflight)]_vars

\* C3 witness: a verified comparison has recorded success and the timer is gone
C3_Witness == status = "success" /\ similarity # NullSim /\ timers = {}

\* C4: the stop button pressed while scanning leaves the controller idle:
\* status "idle", scanning flag false, no timer.
C4_StopGivesIdle ==
    [][StopScanning => (status' = "idle" /\ ~isScanning' /\ timers' = {})]_vars

(***************************************************************************)
(* Claims about the API keys.                                              *)
(***************************************************************************)
AllKeys == {KeyOf(u) : u \in UuidPool}

\* C5: once a key's row is deleted, no validation called afterwards with that
\* key's plaintext returns true, whatever was issued or revoked since.
C5_RevokedNeverValidates ==
    \A r \in requests : r.revoked => r.pc # "authorized"

\* C5 witness: a revoked key was presented while another key was in force,
\* and the validation ended false
C5_Witness ==
    \E r \in requests : r.revoked /\ r.pc = "unauthorized" /\ apiKeys # {}

\* C6: validation ends true exactly when the presented string was, when
\* validateApiKey was called, the plaintext of an issued and unrevoked key;
\* a missing or empty header ends false.
C6_ValidIffActive ==
    \A r \in requests :
        /\ r.pc = "authorized" => r.active
        /\ r.pc = "unauthorized" => ~r.active
        /\ r.key = <<>> => r.pc = "unauthorized"

\* C6 witness: the second of two keys in force was presented and accepted
C6_Witness ==
    \E r \in requests :
        /\ r.pc = "authorized"
        /\ Cardinality(apiKeys) >= 2
        /\ ~PasswordVerify(r.key, RowsInOrder(apiKeys)[1].keyHash)

\* C7 as stated: every request that reaches the face model or the faces table
\* passed a credential check first.
C7_EveryEngineCallChecked ==
    lastEngineCall.server # "none"
        => (lastEngineCall.checked /\ lastEngineCall.valid)

\* C7 amended: every request that reaches the face model or the faces table
\* through a route of the API-guide service passed apiKeyAuth with a key that
\* was in force when it was validated (the demo's own routes ask for none).
C7_GuideRoutesChecked ==
    lastEngineCall.server = "api-guide"
        => (lastEngineCall.checked /\ lastEngineCall.valid)

\* C7 witness: an enrolment went through the API-guide service
C7_Witness ==
    lastEngineCall.server = "api-guide" /\ lastEngineCall.route = "enroll"

\* C8: no column of an api_keys row holds a plaintext key, the plaintext of
\* every row was shown by exactly one "Key Generated!" page, the one of the
\* request that made the row, and the dashboard page shows no plaintext.
C8_PlaintextNeverStored ==
    /\ \A k \in apiKeys :
           /\ DOMAIN k = {"id", "keyHash", "prefix", "name", "createdAt"}
           /\ {k.keyHash, k.prefix, k.name} \cap AllKeys = {}
           /\ \E h \in handedOut :
                  /\ h.id = k.id
                  /\ \A g \in handedOut :
                         PasswordVerify(g.key, k.keyHash) <=> g = h
    /\ \A row \in Dashboard(apiKeys) : {row.prefix, row.name} \cap AllKeys = {}

\* C8 witness: two keys have been issued and are stored
C8_Witness == Cardinality(apiKeys) >= 2 /\ Cardinality(handedOut) >= 2

\* C9: the dashboard shows of every key its id, prefix, name and creation
\* time and nothing else: no key hash and no plaintext.
C9_ListingHidesSecrets ==
    \A row \in Dashboard(apiKeys) :
        /\ DOMAIN row = {"id", "prefix", "name", "createdAt"}
        /\ \A k \in apiKeys : k.keyHash \notin {row.prefix, row.name}
        /\ \A key \in AllKeys : key \notin {row.prefix, row.name}

\* C9 witness: the dashboard lists two keys with the same prefix
C9_Witness ==
    \E a, b \in Dashboard(apiKeys) : a.id # b.id /\ a.prefix = b.prefix

(***************************************************************************)
(* Claims about the search.                                                *)
(***************************************************************************)
\* C10: for every probe the search compares every row, and what it returns is
\* in non-increasing order of similarity, is as long as the table or the
\* limit allows, and holds no row with a lower similarity than a row left out.
C10_SortedBeforeTruncated ==
    \A img \in ProbeImages :
        Recognize(img) # <<>> =>
            LET res == Search(img, faces).body
                all == Matches(Recognize(img), faces)
                returned == {res[i].face.id : i \in 1..Len(res)}
            IN  /\ Len(all) = Len(faces)
                /\ Len(res) = (IF Len(faces) < TopK THEN Len(faces) ELSE TopK)
                /\ Cardinality(returned) = Len(res)
                /\ \A i \in 1..Len(res) : \E j \in 1..Len(all) : res[i] = all[j]
                /\ \A i \in 1..(Len(res) - 1) :
                       res[i].similarity >= res[i + 1].similarity
                /\ \A i \in 1..Len(res), j \in 1..Len(all) :
                       all[j].face.id \notin returned
                           => res[i].similarity >= all[j].similarity

\* C10 witness: more rows than the limit, and the row enrolled last is the
\* best match of a probe while the first row is not
C10_Witness ==
    /\ Len(faces) > TopK
    /\ LET res == Search(1, faces).body
       IN  /\ res[1].face.id # 1
           /\ res[1].similarity > res[TopK].similarity
           /\ faces[Len(faces)].embedding = StringifyEmbedding(Recognize(1))
           /\ \E i \in 1..Len(res) : res[i].face.id = Len(faces)

\* C11: whatever order the store returns the rows in, of two returned
\* identities with equal similarity to the probe the one with the lower id
\* comes first.
C11_TiesLowerIdFirst ==
    \A img \in ProbeImages, rows \in SelectOrders(faces) :
        LET res == Search(img, rows).body
        IN  \A i, j \in 1..Len(res) :
                (i < j /\ res[i].similarity = res[j].similarity)
                    => res[i].face.id < res[j].face.id

C14_WrongLengthRejected ==
    (lastSearch.route = "searchEmbedding" /\ Len(lastSearch.probe) # EmbDim)
        => (/\ lastSearch.status # 200
            /\ lastSearch.error = "DimensionMismatch"
            /\ ~lastSearch.read)

C16_EmptyNameRejected ==
    /\ []((lastReply.op = "enroll" /\ lastReply.name \in {<<>>, << <<>> >>})
            => (/\ lastReply.status = 400
                /\ lastReply.error = "File and name are required"
                /\ lastReply.body = <<>>))
    /\ [](\A i \in 1..Len(faces) : faces[i].name # <<>>)
    /\ [](\A p \in pendingFaces : p.name # <<>>)
    /\ [][\A name \in {<<>>, << <<>> >>} :
            /\ \A img \in EnrollImages :
                   ~EnrollRecognize(name, img) /\ ~EnrollFails(name, img)
            /\ \A file \in FileInputs :
                   EnrollReject(name, file)
                       => (faces' = faces /\ pendingFaces' = pendingFaces)]_vars

\* C16 witness: an enrolment with a file and the empty string as its name
\* was answered 400 while the table held a row
C16_Witness ==
    /\ lastReply.op = "enroll"
    /\ lastReply.name = << <<>> >>
    /\ lastReply.status = 400
    /\ Len(faces) >= 1

\* C17: every step of every request (enrolment answered 400, 500 or 200,
\* search, search by embedding, listing) leaves the rows of the table as they
\* were or adds exactly one row behind them; no field of an existing row
\* changes and no row goes away.
C17_AppendOnly ==
    [][\/ faces' = faces
       \/ /\ Len(faces') = Len(faces) + 1
          /\ SubSeq(faces', 1, Len(faces)) = faces]_vars

\* C17 witness: a search has been answered over a table to which a second
\* row was added a second after the first
C17_Witness ==
    /\ Len(faces) >= 2
    /\ faces[1].createdAt < faces[2].createdAt
    /\ lastReply.op = "search"
    /\ lastReply.status = 200

\* C18: the ids of the rows are all different and grow in the order of the
\* inserts, in whatever order the enrolments under way at once reach their
\* insert: every insert gives its row an id above every id in the table.
C18_IdsUniqueIncreasing ==
    /\ [](\A i, j \in 1..Len(faces) : i < j => faces[i].id < faces[j].id)
    /\ [][\A p \in pendingFaces :
            EnrollInsert(p)
                => \A i \in 1..Len(faces) : faces'[Len(faces')].id > faces[i].id]_vars

\* C18 witness: two rows are in the table and one of them was inserted
\* while another enrolment was between its recognize and its insert
C18_Witness == overlapped /\ Len(faces) >= 2

\* C19 as stated: the listing holds every row, and of any two rows the one
\* enrolled later (the higher id) comes first.
C19_ListMostRecentFirst ==
    lastReply.op = "list" =>
        \A i, j \in 1..Len(lastReply.body) :
            i < j => lastReply.body[i].id > lastReply.body[j].id

\* C19 amended: the listing holds every row of the table, in non-increasing
\* order of createdAt; of two rows enrolled in different seconds the later
\* one comes first (two rows of the same second come in the order the
\* table was read in).
C19_ListByCreatedAtDesc ==
    /\ [](lastReply.op = "list" =>
            \A i, j \in 1..Len(lastReply.body) :
                i < j =>
                    /\ lastReply.body[i].createdAt >= lastReply.body[j].createdAt
                    /\ lastReply.body[i].createdAt # lastReply.body[j].createdAt
                           => lastReply.body[i].id > lastReply.body[j].id)
    /\ [][\A ord \in ScanOrders :
            ListFaces(ord)
                => /\ lastReply'.status = 200
                   /\ Len(lastReply'.body) = Len(faces)
                   /\ \A i \in 1..Len(faces) :
                          \E j \in 1..Len(faces) : lastReply'.body[j] = faces[i]]_vars

\* C19 witness: a listing of two rows enrolled in different seconds
C19_Witness ==
    /\ lastReply.op = "list"
    /\ Len(lastReply.body) >= 2
    /\ lastReply.body[1].createdAt > lastReply.body[2].createdAt

(***************************************************************************)
(* More claims about the live scan.                                        *)
(***************************************************************************)
\* C20: the unmounting of the page clears the interval timer of a running
\* scan: no timer is left once the page is unmounted, and no comparison is
\* started after that.
C20_TeardownClearsTimer ==
    /\ [][Unmount => (timers' = {} /\ intervalRef' = <<>>)]_vars
    /\ [](~mounted => (timers = {} /\ intervalRef = <<>>))
    /\ [][~mounted
            => BagCardinality(inflight') <= BagCardinality(inflight)]_vars

\* C20 witness: the page unmounted while a scan was running with a
\* comparison under way, and no timer is left
C20_Witness ==
    /\ unmountedScanning
    /\ ~mounted
    /\ timers = {}
    /\ inflight # EmptyBag

\* C21: at most one interval timer is active, a timer is active exactly when
\* the scanning flag is true, and the handle of an active timer is the one
\* intervalRef holds, whatever the order of start, stop, success, reset,
\* target selection and target clearing.
C21_OneTimerIffScanning ==
    /\ Cardinality(timers) <= 1
    /\ (timers # {}) <=> isScanning
    /\ \A t \in timers : intervalRef = <<t.id>>
    /\ timers = {} => intervalRef = <<>>

\* C21 witness: a scan is running on its one timer after the target was
\* cleared, and a comparison of that scan has already come back
C21_Witness ==
    /\ isScanning /\ Cardinality(timers) = 1 /\ intervalRef # <<>>
    /\ targetImage = NoImage /\ similarity # NullSim

\* what a failed tick is: the capture gave no screenshot, the request threw,
\* or the answer was an error response
FailedOutcomes == {out \in Outcomes : out.kind \in {"throw", "error"}}

\* C22: a tick of a running scan whose capture or comparison fails does not
\* stop the scan: the scanning flag stays true, the status stays "scanning",
\* the timer stays active with its handle, so the next tick tries again.
C22_FailedTickKeepsScanning ==
    [][(/\ mounted /\ isScanning /\ timers # {}
        /\ \/ \E t \in timers : Tick(t, FALSE)
           \/ \E c \in BagToSet(inflight), out \in FailedOutcomes :
                  CompleteVerify(c, out))
       => (/\ isScanning' /\ status = "scanning" /\ status' = "scanning"
           /\ timers' = timers /\ intervalRef' = intervalRef
           /\ \E t \in timers' : intervalRef' = <<t.id>>)]_vars

\* C22 witness: a scan is still running after a comparison of it came back
\* without a similarity (an error response shows as similarity 0)
C22_Witness ==
    /\ mounted /\ isScanning /\ status = "scanning" /\ timers # {}
    /\ similarity = <<0>>

\* C23: a comparison of a tick records success exactly when the similarity
\* returned for it is at least the threshold of the scan the tick belongs to
\* (the slider value the scan was started with); a lower similarity, or an
\* answer without a similarity, never records success.
C23_SuccessIffAtLeastThreshold ==
    [][\A c \in BagToSet(inflight), out \in Outcomes :
          (mounted /\ status # "success" /\ CompleteVerify(c, out))
             => ((status' = "success")
                   <=> (out.kind = "ok" /\ out.similarity >= c.threshold))]_vars

\* C23 witness: success recorded under the lowest threshold with a similarity
\* the default threshold would have refused
C23_Witness ==
    /\ mounted /\ status = "success" /\ threshold = ThresholdMin
    /\ similarity # NullSim /\ similarity[1] < DefaultThreshold
    /\ similarity[1] >= ThresholdMin

\* C27: pressing Change Target while scanning ends the scan: the step clears
\* the timer and the scanning flag, no tick starts a comparison while the
\* target is cleared, no success is recorded while it is cleared, and whenever
\* a timer is active the stop button is rendered and enabled.
C27_ChangeTargetEndsScan ==
    /\ [][ChangeTarget => (timers' = {} /\ ~isScanning')]_vars
    /\ [][(targetImage = NoImage /\ \E t \in timers : Tick(t, TRUE))
            => inflight' = inflight]_vars
    /\ [][(targetImage = NoImage /\ status # "success")
            => status' # "success"]_vars
    /\ [](timers # {} => (status # "success" /\ targetImage # NoImage))

\* C28: every tick of a running scan uses the target, the threshold and the
\* period that were current when startScanning was called: the timer is made
\* from them, moving a slider changes no timer and no comparison under way,
\* a timer never changes while it is active, and the comparison a tick
\* starts carries its timer's target and threshold.
C28_ScanUsesSettingsAtStart ==
    /\ [][StartScanning
            => timers' = timers \cup
                   {[id |-> intervalRef'[1], target |-> targetImage,
                     threshold |-> threshold, interval |-> IntervalMs(fps)]}]_vars
    /\ [][(\E v \in ThresholdChoices \cup FpsChoices :
               SetThreshold(v) \/ SetFps(v))
            => (timers' = timers /\ inflight' = inflight)]_vars
    /\ [][~StartScanning => timers' \subseteq timers]_vars
    /\ [][\A t \in timers :
            (Tick(t, TRUE) /\ inflight' # inflight)
               => inflight' = inflight (+)
                      SetToBag({[target |-> t.target,
                                 threshold |-> t.threshold]})]_vars

\* C28 witness: both sliders were moved during a scan, and a comparison is
\* under way with the threshold of the start, on a timer with its period
C28_Witness ==
    /\ isScanning
    /\ \E t \in timers :
          /\ t.threshold # threshold /\ t.interval # IntervalMs(fps)
          /\ \E c \in BagToSet(inflight) :
                c.threshold = t.threshold /\ c.target = t.target

\* C26: revocation is effective against validations in progress: once the
\* delete of a key's row has completed, no step of validateApiKey returns
\* true for that key, not even in a call that read the table before the delete.
C26_RevocationBeatsValidation ==
    [][\A r \in requests :
          (r.key \in RevokedSecrets /\ r.pc = "verifying" /\ AuthVerify(r))
             => \A q \in requests' : q.pc # "authorized"]_vars

\* C24: an enrolment that fails part-way, in uniface.recognize or in the
\* insert, writes nothing: the table holds exactly the rows it had before and
\* the caller gets an error response without a row, not a success.
C24_FailedEnrollWritesNothing ==
    [][(\/ \E name \in FaceNameInputs, img \in EnrollImages :
              EnrollFails(name, img)
        \/ \E p \in pendingFaces : EnrollInsertFails(p))
       => (/\ faces' = faces
           /\ lastReply'.op = "enroll"
           /\ lastReply'.status = 500
           /\ lastReply'.error # ""
           /\ lastReply'.body = <<>>)]_vars

\* C24 witness: an enrolment ended in the 500 while another was waiting for
\* its insert, over a table that kept its row
C24_Witness ==
    /\ lastReply.op = "enroll" /\ lastReply.status = 500
    /\ Len(faces) >= 1 /\ pendingFaces # {}

\* C25: in the KYC operation the liveness check comes first: a selfie without
\* a face ends in a 400, a selfie flagged as a spoof ends in verified false,
\* similarity 0, liveness false; in both cases uniface.verify was not called,
\* a request is at uniface.verify only after a detection with a face and
\* without a spoof, and liveness true is reported only when no spoof was
\* detected.
C25_LivenessFirst ==
    /\ \A r \in kycPending :
          r.pc = "verify"
             => (r.seen.kind = "ok" /\ r.seen.box /\ r.seen.spoofing # <<TRUE>>)
    /\ (kycReply.seen.kind = "ok" /\ ~kycReply.seen.box)
          => (kycReply.status = 400 /\ ~kycReply.verifyCalled)
    /\ (kycReply.seen.kind = "ok" /\ kycReply.seen.box
            /\ kycReply.seen.spoofing = <<TRUE>>)
          => (/\ kycReply.status = 200
              /\ kycReply.verified = <<FALSE>>
              /\ kycReply.similarity = <<0>>
              /\ kycReply.liveness = <<FALSE>>
              /\ ~kycReply.verifyCalled)
    /\ kycReply.liveness = <<TRUE>>
          => (/\ kycReply.verifyCalled
              /\ kycReply.seen.kind = "ok" /\ kycReply.seen.box
              /\ kycReply.seen.spoofing # <<TRUE>>)

\* C25 witness: a spoofed selfie was answered while another request, whose
\* selfie passed the liveness check, is at uniface.verify
C25_Witness ==
    /\ kycReply.seen.spoofing = <<TRUE>> /\ kycReply.seen.box
    /\ kycReply.liveness = <<FALSE>>
    /\ \E r \in kycPending : r.pc = "verify"

\* C29: on the detection page the result and the error are never both set,
\* whatever the sequence of file selections and detect requests.
C29_ResultXorError == ~(dResult # <<>> /\ dError # <<>>)

\* C30: the add-face flow of the search page reports success (the alert, the
\* name and the image cleared) only when the enrolment stored the face: no
\* success alert follows a 400 or a 500 of POST /api/faces.
C30_SuccessOnlyWhenStored ==
    sAlert # <<>> => sAlert[1].status = 200

====
